---- MODULE Spec2Model ----
(***************************************************************************)
(* A model of smregions: the partition planner (walker.partitions_list and *)
(* the planner lines of ElementExecutor.run), the element-level first pass *)
(* (ElementExecutor.run), the continuation of deferred partitions          *)
(* (walker.flatten_partitions, walker.compute_sampling) and the            *)
(* orchestration and aggregation of SMRegions.run.                         *)
(*                                                                         *)
(* Python values are modelled by what the code reads of them.  A call that *)
(* raises is modelled by the result Raise(..); an uncaught exception ends  *)
(* the run in pc = "error".                                                *)
(***************************************************************************)
EXTENDS Integers, Sequences, FiniteSets, TLC

VARIABLES
    probe,         \* a planner function applied to drawn arguments
    input,         \* the configuration and the loaded input of the run
    pc,            \* where SMRegions.run is
    error,         \* the exception that ended the run, "" if none
    rng,           \* the orchestrating process's np.random state
    executors,     \* element_executors, in submission order
    next_exec,     \* the executors whose result has been received
    results,       \* results: element name -> executor.result
    used_seed,     \* the argument of np.random.seed in each executor's run
    warnings,      \* the warnings each executor's run logged
    partitions,    \* the flattened list of deferred partitions
    i,             \* the iteration counter of the continuation loop
    tasks,         \* the round's compute_sampling calls, by partition index
    collected,     \* the calls of the round whose result has been received
    list_results,  \* the rows collected by the p-value loop
    output         \* the table written to the output file

vars == <<probe, input, pc, error, rng, executors, next_exec, results, used_seed,
          warnings, partitions, i, tasks, collected, list_results, output>>

runvars == <<input, pc, error, rng, executors, next_exec, results, used_seed,
             warnings, partitions, i, tasks, collected, list_results, output>>

(***************************************************************************)
(* Bounds of the model.                                                    *)
(***************************************************************************)
\* partitions_list is applied to total sizes 0..MaxTotal
MaxTotal == 12
\* ... and to chunk sizes 1..MaxChunkSize
MaxChunkSize == 5
\* small sampling sizes 1..MaxSmallSampling, and the large ones
\* k * SamplingStep for k in 1..MaxSamplingSteps
MaxSmallSampling == 7
SamplingStep == 500000
MaxSamplingSteps == 4
\* small mutation counts 1..MaxSmallMuts, and the large ones
\* k * MutsStep for k in 1..MaxMutsSteps
MaxSmallMuts == 3
MutsStep == 600000
MaxMutsSteps == 4
\* config['sampling_chunk'] ranges over 1..MaxSamplingChunk
MaxSamplingChunk == 2
\* S * M is kept below this size of draw matrix
MaxDraws == 12000000

\* executor.py:37: the chunk ceiling is config['sampling_chunk'] * 10**6
Mega == 1000000

(***************************************************************************)
(* Results of calls: a value, or an uncaught exception.                    *)
(***************************************************************************)
Ok(v) == [err |-> "", val |-> v]
Raise(e) == [err |-> e, val |-> <<>>]

NoProbe == [fn |-> "none"]

RECURSIVE SumSeq(_)
SumSeq(s) == IF s = <<>> THEN 0 ELSE Head(s) + SumSeq(Tail(s))

(***************************************************************************)
(* walker.partitions_list(total_size, chunk_size)                          *)
(***************************************************************************)
PartitionsListNoRemainder(total_size, chunk_size) ==
    IF chunk_size = 0
    THEN Raise("ZeroDivisionError")
    ELSE Ok([k \in 1..(total_size \div chunk_size) |-> chunk_size])

partitions_list(total_size, chunk_size) ==
    IF chunk_size = 0
    THEN Raise("ZeroDivisionError")      \* total_size // chunk_size
    ELSE LET full == [k \in 1..(total_size \div chunk_size) |-> chunk_size]
             res == total_size % chunk_size
         IN  Ok(IF res # 0 THEN full \o <<res>> ELSE full)

(***************************************************************************)
(* The planner of ElementExecutor.run (executor.py:90-93).                 *)
(***************************************************************************)
SamplingChunk(sampling_chunk) == sampling_chunk * Mega

ChunkCount(sampling_size, muts_count, sampling_chunk) ==
    (sampling_size * muts_count) \div SamplingChunk(sampling_chunk)

ChunkSizeCeil(sampling_size, chunk_count) ==
    IF chunk_count = 0 THEN sampling_size
    ELSE (sampling_size + chunk_count - 1) \div chunk_count

ChunkSize(sampling_size, chunk_count) ==
    IF chunk_count = 0 THEN sampling_size ELSE sampling_size \div chunk_count

Plan(sampling_size, muts_count, sampling_chunk) ==
    partitions_list(sampling_size,
                    ChunkSize(sampling_size,
                              ChunkCount(sampling_size, muts_count, sampling_chunk)))

(***************************************************************************)
(* The inputs of a run.  load.load_and_map_variants returns the mutations  *)
(* grouped by element (only elements with a mutation are keys), the        *)
(* segments of every element and its regions of interest.  Positions are   *)
(* positions of one chromosome, whose reference sequence is Reference.     *)
(***************************************************************************)
Elements == {"e1", "e2"}
Samples == {"s1", "s2"}
Bases == <<"A", "C", "G", "T">>

\* the mutations file holds at most MaxMuts mapped rows
MaxMuts == 3

Reference == <<"A", "C", "G", "T", "N", "A">>

\* bgreference.refseq(build, chromosome, start, size)
refseq(start, size) == SubSeq(Reference, start, start + size - 1)

\* the rows of the first element are at either position and of either sample,
\* those of the second element at one position and of one sample
MutPositions == {2, 3}
MutationRows ==
    [ELEMENT : {"e1"}, POSITION : MutPositions, SAMPLE : Samples]
        \cup [ELEMENT : {"e2"}, POSITION : {3}, SAMPLE : {"s1"}]

RowRank(r) ==
    (IF r.ELEMENT = "e1" THEN 0 ELSE 4) + (IF r.SAMPLE = "s1" THEN 0 ELSE 2)
        + (r.POSITION - 2)

MutationLists ==
    {m \in UNION {[1..n -> MutationRows] : n \in 0..MaxMuts} :
        \A a \in 1..Len(m), b \in 1..Len(m) : a < b => RowRank(m[a]) <= RowRank(m[b])}

Segment(a, b) == [START |-> a, END |-> b]
SegmentChoices == {<<Segment(2, 4)>>}

\* an Interval of the element's IntervalTree: begin, end, data = "ELEMENT;SYMBOL"
\* (load.py:181); the symbol of a region of element e is e.  Every row of the
\* regions file adds one interval, so a region made of two segments gives two
\* intervals with the same label; the tree is iterated in the order of a set,
\* so both orders of such a pair are inputs (for the first element).
Region(id, symbol, a, b) == [begin |-> a, end |-> b, data |-> <<id, symbol>>]
RegionChoices(e) ==
    { <<>>,
      <<Region("r1", e, 3, 4)>>,
      <<Region("r1", e, 3, 4), Region("r2", e, 2, 3)>> }
    \cup (IF e = "e1"
          THEN { <<Region("r1", e, 3, 4), Region("r1", e, 2, 3)>>,
                 <<Region("r1", e, 2, 3), Region("r1", e, 3, 4)>> }
          ELSE {})
RegionMaps ==
    {f \in [Elements -> UNION {RegionChoices(e) : e \in Elements}] :
        \A e \in Elements : f[e] \in RegionChoices(e)}

\* a signature table: context key (triplet, alt) -> weight
None == [type |-> "None"]
Table(t) == [type |-> "dict", table |-> t]
ZeroTable == Table(<<>>)
TableT1 == Table((<<<<"A", "C", "G">>, "T">> :> 1) @@ (<<<<"C", "G", "T">>, "A">> :> 3))
TableT2 == Table((<<<<"C", "G", "T">>, "G">> :> 2))

\* signature: None (no signature file), or sample -> table or None
SignatureChoices ==
    { None,
      [type |-> "dict", of |-> [s \in Samples |-> None]],
      [type |-> "dict", of |-> [s \in Samples |-> ZeroTable]],
      [type |-> "dict", of |-> ("s1" :> TableT1) @@ ("s2" :> ZeroTable)],
      [type |-> "dict", of |-> ("s1" :> TableT2) @@ ("s2" :> TableT1)] }

RunSamplings == {1, 2 * SamplingStep, MaxSamplingSteps * SamplingStep}

\* How ElementExecutor's last two constructor arguments are bound.
\*   "SMRegions.run": as smregions.py:89-94 passes them: the drawn integer is
\*       the seventh positional argument, mutpersample, and seed keeps its
\*       default None;
\*   "per_sample": mutpersample is the grouping of the element's mutations by
\*       sample and seed is the drawn integer: the arguments
\*       ElementExecutor.run is written for.
Bindings == {"SMRegions.run", "per_sample"}

Inputs ==
    [sampling : RunSamplings, sampling_chunk : {1}, muts_min : {1, 2},
     seed : {1}, binding : Bindings, mutations : MutationLists,
     segments : [Elements -> SegmentChoices],
     regions : RegionMaps, signature : SignatureChoices]

(***************************************************************************)
(* reference.generate_triplets and the candidate list of                   *)
(* ElementExecutor.run (executor.py:55-78).                                *)
(***************************************************************************)
\* reference._slicing_window(seq, 3)
SlicingWindow(seq) ==
    IF Len(seq) < 3 THEN <<>> ELSE [k \in 1..(Len(seq) - 2) |-> SubSeq(seq, k, k + 2)]

generate_triplets(start, stop) == SlicingWindow(refseq(start - 1, stop - start + 2))

HasN(triplet) == \E k \in 1..Len(triplet) : triplet[k] = "N"

\* the (pos, alt) pairs of one position, with the triplet their weight is read by
RECURSIVE AltsOf(_, _, _)
AltsOf(pos, ref_triplet, k) ==
    IF k > Len(Bases) THEN <<>>
    ELSE (IF Bases[k] = ref_triplet[2] THEN <<>>
          ELSE <<[pos |-> pos, alt |-> Bases[k], ref_triplet |-> ref_triplet]>>)
         \o AltsOf(pos, ref_triplet, k + 1)

\* zip(range(START, END + 1), generate_triplets(..)) from its k-th pair on
RECURSIVE SegmentItems(_, _, _)
SegmentItems(segment, triplets, k) ==
    IF k > Len(triplets) \/ segment.START + k - 1 > segment.END THEN <<>>
    ELSE (IF HasN(triplets[k]) THEN <<>>
          ELSE AltsOf(segment.START + k - 1, triplets[k], 1))
         \o SegmentItems(segment, triplets, k + 1)

RECURSIVE Candidates(_)
Candidates(segments) ==
    IF segments = <<>> THEN <<>>
    ELSE SegmentItems(Head(segments),
                      generate_triplets(Head(segments).START, Head(segments).END), 1)
         \o Candidates(Tail(segments))

\* items_to_simulate
ItemsToSimulate(segments) ==
    LET c == Candidates(segments) IN [k \in 1..Len(c) |-> <<c[k].pos, c[k].alt>>]

\* items_to_simulate_prob[sample_id] before normalization (executor.py:74-78);
\* sample_signature is self.signature[sample_id]
Weights(segments, sample_signature) ==
    LET c == Candidates(segments)
    IN  [k \in 1..Len(c) |->
            IF sample_signature.type = "None" THEN 1
            ELSE LET key == <<c[k].ref_triplet, c[k].alt>>
                 IN  IF key \in DOMAIN sample_signature.table
                     THEN sample_signature.table[key] ELSE 0]

(***************************************************************************)
(* Random draws.  np.random.choice(indexes, size=(rows, cols), p=p) draws  *)
(* rows * cols indexes of candidates of non-zero probability; the counting *)
(* loops read only the position of a drawn candidate, so a draw is         *)
(* modelled by the number of drawn entries at each position.               *)
(***************************************************************************)
Positions(items) == {items[k][1] : k \in 1..Len(items)}

Support(items, weights) == {items[k][1] : k \in {j \in 1..Len(items) : weights[j] > 0}}

DrawOutcomes(total, items, weights) ==
    LET sup == Support(items, weights)
        pos == Positions(items)
    IN  {[q \in pos |-> IF q = a THEN total ELSE 0] : a \in sup}
        \cup {[q \in pos |-> IF q = ab[1] THEN 1 ELSE IF q = ab[2] THEN total - 1 ELSE 0] :
                 ab \in {xy \in sup \X sup : xy[1] < xy[2] /\ total >= 2}}

\* the drawn entries whose position lies in [begin, end]
RECURSIVE HitsIn(_, _, _)
HitsIn(hits, reg, todo) ==
    IF todo = {} THEN 0
    ELSE LET q == CHOOSE x \in todo : TRUE
         IN  (IF reg.begin <= q /\ q <= reg.end THEN hits[q] ELSE 0)
             + HitsIn(hits, reg, todo \ {q})

CountHits(hits, reg) == HitsIn(hits, reg, DOMAIN hits)

(***************************************************************************)
(* ElementExecutor (executor.py:13-132)                                    *)
(***************************************************************************)
IntArg(n) == [type |-> "int", val |-> n]

\* the keys of a dict built by grouping rows by sample, in insertion order
RECURSIVE SampleKeys(_)
SampleKeys(muts) ==
    IF muts = <<>> THEN <<>>
    ELSE LET rest == SampleKeys(SubSeq(muts, 1, Len(muts) - 1))
             s == muts[Len(muts)].SAMPLE
         IN  IF \E k \in 1..Len(rest) : rest[k] = s THEN rest ELSE Append(rest, s)

MutPerSample(muts) ==
    [type |-> "dict", keys |-> SampleKeys(muts),
     of |-> [s \in {muts[k].SAMPLE : k \in 1..Len(muts)} |->
                SelectSeq(muts, LAMBDA m : m.SAMPLE = s)]]

NoState == [region_of_interest |-> <<>>, simulation_items |-> <<>>,
            simulation_probs |-> None]

EmptyResult(muts_count) ==
    [nmuts |-> muts_count, partitions |-> <<>>, in_reg_counts |-> <<>>,
     stored |-> FALSE, state |-> NoState]

RunOk(w, result) == [err |-> "", warnings |-> w, result |-> result]
RunRaise(e, w) == [err |-> e, warnings |-> w, result |-> EmptyResult(0)]

SeqToSet(s) == {s[k] : k \in 1..Len(s)}

\* count_observed of a region (executor.py:113-115)
CountObserved(muts, reg) ==
    Cardinality({k \in 1..Len(muts) :
                    reg.begin <= muts[k].POSITION /\ muts[k].POSITION <= reg.end})

\* count_simulated of a region over the rows of all samples (executor.py:116-121)
RECURSIVE CountSimulated(_, _, _)
CountSimulated(draws, reg, keys) ==
    IF keys = <<>> THEN 0
    ELSE CountHits(draws[Head(keys)], reg) + CountSimulated(draws, reg, Tail(keys))

\* in_reg_counts after the loop over the regions: a later region of the same
\* label replaces the entry of an earlier one
RECURSIVE InRegCounts(_, _, _, _)
InRegCounts(regions, muts, draws, keys) ==
    IF regions = <<>> THEN <<>>
    ELSE LET reg == regions[Len(regions)]
             before == InRegCounts(SubSeq(regions, 1, Len(regions) - 1), muts, draws, keys)
             entry == <<CountObserved(muts, reg), CountSimulated(draws, reg, keys)>>
         IN  [l \in (DOMAIN before) \cup {reg.data} |->
                 IF l = reg.data THEN entry ELSE before[l]]

WeightSum(ex, s) == SumSeq(Weights(ex.segments, ex.signature.of[s]))

\* the warnings logged before the first sample whose weights do not sum to 0
RECURSIVE WarningsBefore(_, _)
WarningsBefore(ex, keys) ==
    IF keys = <<>> \/ WeightSum(ex, Head(keys)) # 0 THEN 0
    ELSE 1 + WarningsBefore(ex, Tail(keys))

HasWorkIgnoresRegions(ex) == Len(ex.muts) > 0

\* muts_count > 0 and len(self.regions_of_interest) > 0 (executor.py:53)
HasWork(ex) == Len(ex.muts) > 0 /\ Len(ex.regions_of_interest) > 0

\* the plan of the element (executor.py:90-93)
ElementPlan(ex, config) == Plan(config.sampling, Len(ex.muts), config.sampling_chunk)

\* first_partition = self.result['partitions'].pop(0) (executor.py:96): the
\* partition run inline, and the partitions left in the result
FirstPartition(plan) == Head(plan)

DeferredKeepsFirst(plan) == plan

Deferred(plan) == Tail(plan)

\* the draw matrices the first pass may get for one sample: first_partition
\* rows of as many entries as the sample has mutations
SampleDraws(ex, first_partition, s) ==
    DrawOutcomes(first_partition * Len(ex.mutpersample.of[s]),
                 ItemsToSimulate(ex.segments),
                 Weights(ex.segments, ex.signature.of[s]))

\* the draws a run of the executor may make: one draw matrix per sample; no
\* draw when the run does not reach np.random.choice with a valid p
FirstPassDraws(ex, config) ==
    LET plan == ElementPlan(ex, config)
    IN  IF ~HasWork(ex)
           \/ ex.mutpersample.type # "dict" \/ ex.signature.type = "None"
           \/ plan.err # "" \/ plan.val = <<>>
        THEN {<<>>}
        ELSE LET keys == SeqToSet(ex.mutpersample.keys)
             IN  IF \E s \in keys : WeightSum(ex, s) = 0
                 THEN {<<>>}
                 ELSE {d \in [keys -> UNION {SampleDraws(ex, FirstPartition(plan.val), s) : s \in keys}] :
                          \A s \in keys : d[s] \in SampleDraws(ex, FirstPartition(plan.val), s)}

\* ElementExecutor.run (executor.py:43-132), with the draws of its last pass
\* over the samples
Run(ex, config, draws) ==
    LET muts_count == Len(ex.muts)
        items == ItemsToSimulate(ex.segments)
    IN  IF ~HasWork(ex)
        THEN RunOk(0, EmptyResult(muts_count))
        ELSE IF ex.mutpersample.type # "dict"
        THEN RunRaise("AttributeError", 0)          \* self.mutpersample.keys()
        ELSE LET keys == ex.mutpersample.keys IN
        IF items # <<>> /\ keys # <<>> /\ ex.signature.type = "None"
        THEN RunRaise("TypeError", 0)               \* self.signature[sample_id]
        ELSE IF \A s \in SeqToSet(keys) : WeightSum(ex, s) = 0
        THEN RunOk(Len(keys), EmptyResult(muts_count))
        ELSE IF \E s \in SeqToSet(keys) : WeightSum(ex, s) = 0
        THEN RunRaise("ValueError", WarningsBefore(ex, keys))  \* p holds NaN
        ELSE LET plan == ElementPlan(ex, config) IN
        IF plan.err # "" THEN RunRaise(plan.err, 0)
        ELSE IF plan.val = <<>> THEN RunRaise("IndexError", 0) \* pop(0) of []
        ELSE LET rest == Deferred(plan.val)
             IN  RunOk(0,
                   [nmuts |-> muts_count, partitions |-> rest,
                    in_reg_counts |-> InRegCounts(ex.regions_of_interest, ex.muts, draws, keys),
                    stored |-> rest # <<>>,
                    state |-> IF rest # <<>>
                              THEN [region_of_interest |-> ex.regions_of_interest,
                                    simulation_items |-> items,
                                    simulation_probs |->
                                       [type |-> "defaultdict",
                                        of |-> [s \in SeqToSet(keys) |->
                                                  [w |-> Weights(ex.segments, ex.signature.of[s]),
                                                   over |-> WeightSum(ex, s)]]]]
                              ELSE NoState])

(***************************************************************************)
(* walker.compute_sampling(value): the counts it leaves in                 *)
(* result['in_reg_counts'] of the result it is given, or the exception it  *)
(* raises.  hits is the draw of np.random.choice.                          *)
(***************************************************************************)
AddSimulatedRederives(in_reg_counts, regions, hits) ==
    [l \in DOMAIN in_reg_counts |->
        <<Cardinality({k \in 1..Len(regions) :
                          regions[k].data = l /\ CountHits(hits, regions[k]) > 0}),
          in_reg_counts[l][2]>>]

AddSimulatedOverwrites(in_reg_counts, regions, hits) ==
    [l \in DOMAIN in_reg_counts |->
        IF \E k \in 1..Len(regions) : regions[k].data = l
        THEN LET last == CHOOSE k \in 1..Len(regions) :
                            /\ regions[k].data = l
                            /\ \A j \in 1..Len(regions) : regions[j].data = l => j <= k
             IN  <<in_reg_counts[l][1], CountHits(hits, regions[last])>>
        ELSE in_reg_counts[l]]

\* lines 51-62: every region adds its hits to the entry of its label
RECURSIVE AddSimulated(_, _, _)
AddSimulated(in_reg_counts, regions, hits) ==
    IF regions = <<>> THEN in_reg_counts
    ELSE LET reg == Head(regions)
             old == in_reg_counts[reg.data]
         IN  AddSimulated([in_reg_counts EXCEPT
                              ![reg.data] = <<old[1], old[2] + CountHits(hits, reg)>>],
                          Tail(regions), hits)

\* np.random.choice takes p as a one-dimensional array of floats
IsProbVector(p) == p.type = "array"

compute_sampling(value, result, hits) ==
    IF ~result.stored THEN Raise("KeyError")        \* result['simulation_items']
    ELSE IF ~IsProbVector(result.state.simulation_probs)
    THEN Raise("TypeError")                         \* p is the per-sample dict
    ELSE Ok(AddSimulated(result.in_reg_counts, result.state.region_of_interest, hits))

\* the draws compute_sampling may get: samples rows of nmuts entries
SamplingDraws(value, result) ==
    IF result.stored /\ IsProbVector(result.state.simulation_probs)
    THEN DrawOutcomes(value.samples * result.nmuts, result.state.simulation_items,
                      result.state.simulation_probs.w)
    ELSE {<<>>}

(***************************************************************************)
(* The orchestrating process's random stream: np.random.seed(seed) in      *)
(* SMRegions.__init__, then one np.random.randint(0, 2**32-1) per call.    *)
(* The generator is modelled by a fixed function of the seed and of the    *)
(* number of earlier draws, with values below RandHigh: the range of the   *)
(* drawn integers is scaled down from 2**32 - 1 to RandHigh values.        *)
(***************************************************************************)
RandHigh == 2

Stream(seed, n) == (seed * 421 + n * 167 + 13) % RandHigh

randint(r) == Stream(r.seed, r.n)

Advance(r, k) == [r EXCEPT !.n = r.n + k]

\* np.random.seed(None) seeds from the operating system's entropy
Entropy == [from |-> "entropy", val |-> 0]
Seeded(n) == [from |-> "seed", val |-> n]
NotRun == [from |-> "none", val |-> 0]

(***************************************************************************)
(* SMRegions.run (smregions.py:73-163)                                     *)
(***************************************************************************)
Config == [sampling |-> input.sampling, sampling_chunk |-> input.sampling_chunk,
           muts_min |-> input.muts_min, seed |-> input.seed]

\* mutations: the rows of each element, for the elements that have one
MutsOf(e) == SelectSeq(input.mutations, LAMBDA m : m.ELEMENT = e)

\* sorted(mutations.items()) with the filter on muts_min
ElementOrder == <<"e1", "e2">>

AnalysedAll == SelectSeq(ElementOrder, LAMBDA e : Len(MutsOf(e)) > 0)

Analysed == SelectSeq(ElementOrder,
                      LAMBDA e : Len(MutsOf(e)) > 0 /\ Len(MutsOf(e)) >= input.muts_min)

\* ElementExecutor(...) for the k-th analysed element; drawn is the integer of
\* np.random.randint(0, 2**32-1)
NewExecutor(e, drawn) ==
    [name |-> e, muts |-> MutsOf(e), segments |-> input.segments[e],
     regions_of_interest |-> input.regions[e], signature |-> input.signature,
     mutpersample |-> IF input.binding = "SMRegions.run" THEN IntArg(drawn)
                      ELSE MutPerSample(MutsOf(e)),
     seed |-> IF input.binding = "SMRegions.run" THEN None ELSE IntArg(drawn)]

\* sorted(element_executors, key=lambda e: -len(e.muts)): a stable sort
RECURSIVE InsertByMuts(_, _)
InsertByMuts(sorted, ex) ==
    IF sorted = <<>> THEN <<ex>>
    ELSE IF Len(Head(sorted).muts) >= Len(ex.muts)
         THEN <<Head(sorted)>> \o InsertByMuts(Tail(sorted), ex)
         ELSE <<ex>> \o sorted

SortByMutsSkipped(exs) == exs

RECURSIVE SortByMuts(_)
SortByMuts(exs) ==
    IF exs = <<>> THEN <<>>
    ELSE InsertByMuts(SortByMuts(SubSeq(exs, 1, Len(exs) - 1)), exs[Len(exs)])

Init ==
    /\ probe = NoProbe
    /\ input \in Inputs
    /\ pc = "start"
    /\ error = ""
    /\ rng = [seed |-> input.seed, n |-> 0]
    /\ executors = <<>>
    /\ next_exec = 0
    /\ results = <<>>
    /\ used_seed = [e \in Elements |-> NotRun]
    /\ warnings = [e \in Elements |-> 0]
    /\ partitions = <<>>
    /\ i = 0
    /\ tasks = <<>>
    /\ collected = 0
    /\ list_results = <<>>
    /\ output = [written |-> FALSE, rows |-> <<>>]

\* smregions.py:89-97
CreateExecutors ==
    /\ pc = "start"
    /\ executors' = SortByMuts([k \in 1..Len(Analysed) |->
                                   NewExecutor(Analysed[k], Stream(rng.seed, rng.n + k - 1))])
    /\ rng' = Advance(rng, Len(Analysed))
    /\ pc' = "first_pass"
    /\ UNCHANGED <<probe, input, error, next_exec, results, used_seed, warnings,
                   partitions, i, tasks, collected, list_results, output>>

\* np.random.seed(self.seed) (executor.py:45)
SeedUsed(ex) == IF ex.seed.type = "None" THEN Entropy ELSE Seeded(ex.seed.val)

\* smregions.py:100-105: the next result of pool.imap(executor_run, ..)
ExecutorRun ==
    /\ pc = "first_pass"
    /\ next_exec < Len(executors)
    /\ LET ex == executors[next_exec + 1]
       IN  \E draws \in FirstPassDraws(ex, Config) :
             LET out == Run(ex, Config, draws)
             IN  /\ used_seed' = [used_seed EXCEPT ![ex.name] = SeedUsed(ex)]
                 /\ warnings' = [warnings EXCEPT ![ex.name] = out.warnings]
                 /\ IF out.err # ""
                    THEN /\ pc' = "error"
                         /\ error' = out.err
                         /\ UNCHANGED <<next_exec, results>>
                    ELSE /\ results' = (ex.name :> out.result) @@ results
                         /\ next_exec' = next_exec + 1
                         /\ UNCHANGED <<pc, error>>
    /\ UNCHANGED <<probe, input, rng, executors, partitions, i, tasks, collected,
                   list_results, output>>

\* walker.flatten_partitions(results): one tuple per deferred partition, in
\* the order of results, each with a drawn seed
RECURSIVE FlattenFrom(_, _, _, _)
FlattenFrom(res, names, r, k) ==
    IF names = <<>> THEN <<>>
    ELSE LET name == Head(names)
             parts == res[name].partitions
         IN  [j \in 1..Len(parts) |->
                 [name |-> name, samples |-> parts[j], seed |-> Stream(r.seed, r.n + k + j - 1)]]
             \o FlattenFrom(res, Tail(names), r, k + Len(parts))

ResultNames == [k \in 1..next_exec |-> executors[k].name]

flatten_partitions(res, names, r) == FlattenFrom(res, names, r, 0)

\* smregions.py:108
Flatten ==
    /\ pc = "first_pass"
    /\ next_exec = Len(executors)
    /\ partitions' = flatten_partitions(results, ResultNames, rng)
    /\ rng' = Advance(rng, Len(partitions'))
    /\ pc' = "loop"
    /\ UNCHANGED <<probe, input, error, executors, next_exec, results, used_seed,
                   warnings, i, tasks, collected, list_results, output>>

Queued == [state |-> "queued", err |-> "", counts |-> <<>>]

\* the workers of Pool(self.cores) (smregions.py:100)
Cores == 2

Running(k) == tasks[k].state = "running"
Executed(k) == tasks[k].state \in {"returned", "raised"}

LoopTestSkipsFirst == Len(partitions) > 0 /\ i > 0

\* smregions.py:111-117: the loop test holds, a round is submitted
LoopTest == Len(partitions) > 0 \/ i = 0

StartRound ==
    /\ pc = "loop"
    /\ LoopTest
    /\ i' = i + 1
    /\ tasks' = [k \in 1..Len(partitions) |-> Queued]
    /\ collected' = 0
    /\ pc' = IF Len(partitions) = 0 THEN "loop" ELSE "round"
    /\ UNCHANGED <<probe, input, error, rng, executors, next_exec, results, used_seed,
                   warnings, partitions, list_results, output>>

\* pool.imap hands the tuples to the workers in order: an idle worker takes
\* the next one and starts walker.compute_sampling on its copy of it
TakeTask(k) ==
    /\ pc = "round"
    /\ tasks[k].state = "queued"
    /\ \A j \in 1..(k - 1) : tasks[j].state # "queued"
    /\ Cardinality({j \in 1..Len(tasks) : Running(j)}) < Cores
    /\ tasks' = [tasks EXCEPT ![k] = [state |-> "running", err |-> "", counts |-> <<>>]]
    /\ UNCHANGED <<probe, input, pc, error, rng, executors, next_exec, results, used_seed,
                   warnings, partitions, i, collected, list_results, output>>

\* the worker ends walker.compute_sampling on its copy of the tuple: what
\* it does to result['in_reg_counts'] stays in the worker, it returns None
ComputeSampling(k) ==
    /\ pc = "round"
    /\ Running(k)
    /\ LET value == partitions[k]
           result == results[value.name]
       IN  \E hits \in SamplingDraws(value, result) :
             LET out == compute_sampling(value, result, hits)
             IN  tasks' = [tasks EXCEPT ![k] =
                             IF out.err # ""
                             THEN [state |-> "raised", err |-> out.err, counts |-> <<>>]
                             ELSE [state |-> "returned", err |-> "", counts |-> out.val]]
    /\ UNCHANGED <<probe, input, pc, error, rng, executors, next_exec, results, used_seed,
                   warnings, partitions, i, collected, list_results, output>>

\* smregions.py:117-118: the orchestrating process takes the next result of
\* pool.imap(walker.compute_sampling, partitions)
Collect ==
    /\ pc = "round"
    /\ collected < Len(tasks)
    /\ Executed(collected + 1)
    /\ IF tasks[collected + 1].state = "raised"
       THEN /\ pc' = "error"
            /\ error' = tasks[collected + 1].err
            /\ UNCHANGED collected
       ELSE /\ collected' = collected + 1
            /\ pc' = IF collected + 1 = Len(tasks) THEN "loop" ELSE "round"
            /\ UNCHANGED error
    /\ UNCHANGED <<probe, input, rng, executors, next_exec, results, used_seed,
                   warnings, partitions, i, tasks, list_results, output>>

\* smregions.py:111: the loop test fails
ExitLoop ==
    /\ pc = "loop"
    /\ ~LoopTest
    /\ pc' = "pvalues"
    /\ UNCHANGED <<probe, input, error, rng, executors, next_exec, results, used_seed,
                   warnings, partitions, i, tasks, collected, list_results, output>>

(***************************************************************************)
(* The p-value loop and the table (smregions.py:120-163).                  *)
(***************************************************************************)
\* the keys of in_reg_counts in insertion order
RECURSIVE LabelsInOrder(_)
LabelsInOrder(regions) ==
    IF regions = <<>> THEN <<>>
    ELSE LET before == LabelsInOrder(SubSeq(regions, 1, Len(regions) - 1))
             l == regions[Len(regions)].data
         IN  IF \E k \in 1..Len(before) : before[k] = l THEN before ELSE Append(before, l)

\* simulated / sampling, kept as a fraction
Mean(simulated, sampling) == [num |-> simulated, den |-> sampling]

\* observed >= mean_simulated
AtLeast(observed, mean) == observed * mean.den >= mean.num

\* stats.power_divergence(f_obs=[a, b], f_exp=[c, d], lambda_="log-likelihood"):
\* the p-value is a function of the four numbers; it is NaN when b = 0 and
\* d = 0 (the term 0 * log(0 / 0)) and finite otherwise
PValue(observed, total_mut, mean) ==
    [finite |-> ~(total_mut - observed = 0 /\ mean.num = total_mut * mean.den),
     of |-> <<observed, total_mut, mean.num, mean.den>>]

RowsOfRegionUnguarded(total_mut, label, counts, sampling) ==
    << [REGION |-> label[1], HUGO_SYMBOL |-> label[2],
        TOTAL_MUTS_GENE |-> total_mut, OBSERVED_REGION |-> counts[1],
        MEAN_SIMULATED |-> Mean(counts[2], sampling),
        P_VALUE |-> PValue(counts[1], total_mut, Mean(counts[2], sampling))] >>

\* the row of one region (smregions.py:127-136), none when observed = 0
RowsOfRegion(total_mut, label, counts, sampling) ==
    LET observed == counts[1]
        mean_simulated == Mean(counts[2], sampling)
    IN  IF observed > 0
        THEN << [REGION |-> label[1], HUGO_SYMBOL |-> label[2],
                 TOTAL_MUTS_GENE |-> total_mut, OBSERVED_REGION |-> observed,
                 MEAN_SIMULATED |-> mean_simulated,
                 P_VALUE |-> PValue(observed, total_mut, mean_simulated)] >>
        ELSE <<>>

RECURSIVE RowsOfResult(_, _, _)
RowsOfResult(result, labels, sampling) ==
    IF labels = <<>> THEN <<>>
    ELSE (IF Head(labels) \in DOMAIN result.in_reg_counts
          THEN RowsOfRegion(result.nmuts, Head(labels),
                            result.in_reg_counts[Head(labels)], sampling)
          ELSE <<>>)
         \o RowsOfResult(result, Tail(labels), sampling)

RECURSIVE RowsFrom(_, _)
RowsFrom(res, k) ==
    IF k > next_exec THEN <<>>
    ELSE RowsOfResult(res[executors[k].name],
                      LabelsInOrder(executors[k].regions_of_interest), input.sampling)
         \o RowsFrom(res, k + 1)

\* smregions.py:124-136
ComputePValues ==
    /\ pc = "pvalues"
    /\ list_results' = RowsFrom(results, 1)
    /\ pc' = "store"
    /\ UNCHANGED <<probe, input, error, rng, executors, next_exec, results, used_seed,
                   warnings, partitions, i, tasks, collected, output>>

RetainedAll(rows) == rows

\* smregions.py:143-144: only positive selection
Retained(rows) ==
    IF Len(rows) > 0
    THEN SelectSeq(rows, LAMBDA r : AtLeast(r.OBSERVED_REGION, r.MEAN_SIMULATED))
    ELSE rows

\* smregions.py:147-155: mt.multipletests(p[mask], method='fdr_bh')[1] is a
\* function of the row's p-value and of the finite p-values it is given
NaN == [nan |-> TRUE, p |-> <<>>, among |-> <<>>]

CorrectedPerElement(rows) ==
    [k \in 1..Len(rows) |->
        LET own == SelectSeq(rows, LAMBDA r : r.P_VALUE.finite
                                              /\ r.HUGO_SYMBOL = rows[k].HUGO_SYMBOL)
        IN  [row |-> rows[k],
             Q_VALUE |-> IF rows[k].P_VALUE.finite
                         THEN [nan |-> FALSE, p |-> rows[k].P_VALUE.of,
                               among |-> [j \in 1..Len(own) |-> own[j].P_VALUE.of]]
                         ELSE NaN]]

Corrected(rows) ==
    LET finite == SelectSeq(rows, LAMBDA r : r.P_VALUE.finite)
        input_p == [k \in 1..Len(finite) |-> finite[k].P_VALUE.of]
    IN  [k \in 1..Len(rows) |->
            [row |-> rows[k],
             Q_VALUE |-> IF rows[k].P_VALUE.finite
                         THEN [nan |-> FALSE, p |-> rows[k].P_VALUE.of, among |-> input_p]
                         ELSE NaN]]

\* smregions.py:139-163
StoreResults ==
    /\ pc = "store"
    /\ output' = [written |-> TRUE, rows |-> Corrected(Retained(list_results))]
    /\ pc' = "done"
    /\ UNCHANGED <<probe, input, error, rng, executors, next_exec, results, used_seed,
                   warnings, partitions, i, tasks, collected, list_results>>

Next ==
    \/ CreateExecutors
    \/ ExecutorRun
    \/ Flatten
    \/ StartRound
    \/ \E k \in 1..Len(tasks) : TakeTask(k)
    \/ \E k \in 1..Len(tasks) : ComputeSampling(k)
    \/ Collect
    \/ ExitLoop
    \/ ComputePValues
    \/ StoreResults

Spec == Init /\ [][Next]_vars

(***************************************************************************)
(* The planner functions applied to inputs drawn from bounded sets.        *)
(***************************************************************************)
SamplingSizes ==
    (1..MaxSmallSampling) \cup {k * SamplingStep : k \in 1..MaxSamplingSteps}

MutsCounts ==
    (1..MaxSmallMuts) \cup {k * MutsStep : k \in 1..MaxMutsSteps}

PlanInputs ==
    {in \in [S : SamplingSizes, M : MutsCounts, sampling_chunk : 1..MaxSamplingChunk] :
        in.M <= MaxDraws \div in.S}

ListInputs == [total_size : 0..MaxTotal, chunk_size : 1..MaxChunkSize]

IdleInput ==
    [sampling |-> 1, sampling_chunk |-> 1, muts_min |-> 1, seed |-> 1,
     binding |-> "per_sample", mutations |-> <<>>,
     segments |-> [e \in Elements |-> <<>>], regions |-> [e \in Elements |-> <<>>],
     signature |-> None]

InitPlan ==
    /\ \/ \E in \in ListInputs : probe = [fn |-> "list_input", in |-> in]
       \/ \E in \in PlanInputs : probe = [fn |-> "plan_input", in |-> in]
    /\ input = IdleInput
    /\ pc = "idle"
    /\ error = ""
    /\ rng = [seed |-> 1, n |-> 0]
    /\ executors = <<>>
    /\ next_exec = 0
    /\ results = <<>>
    /\ used_seed = [e \in Elements |-> NotRun]
    /\ warnings = [e \in Elements |-> 0]
    /\ partitions = <<>>
    /\ i = 0
    /\ tasks = <<>>
    /\ collected = 0
    /\ list_results = <<>>
    /\ output = [written |-> FALSE, rows |-> <<>>]

CallPartitionsList ==
    /\ probe.fn = "list_input"
    /\ probe' = [fn |-> "partitions_list", in |-> probe.in,
                 out |-> partitions_list(probe.in.total_size, probe.in.chunk_size)]
    /\ UNCHANGED runvars

CallPlan ==
    /\ probe.fn = "plan_input"
    /\ probe' = [fn |-> "plan", in |-> probe.in,
                 out |-> Plan(probe.in.S, probe.in.M, probe.in.sampling_chunk)]
    /\ UNCHANGED runvars

NextPlan == CallPartitionsList \/ CallPlan

SpecPlan == InitPlan /\ [][NextPlan]_vars

(***************************************************************************)
(* The candidate list and the weights of one sample (executor.py:55-78)    *)
(* computed for segment lists drawn from a bounded set.                    *)
(***************************************************************************)
\* segments end at MaxSegmentEnd at most, an element has up to MaxSegments
MaxSegmentEnd == 4
MaxSegments == 2

\* reference.get_triplet(chromosome, pos)
get_triplet(pos) == refseq(pos - 1, 3)

ProbeSegments ==
    {sg \in [START : 2..MaxSegmentEnd, END : 2..MaxSegmentEnd] : sg.START <= sg.END}

ItemsInputs ==
    [segments : UNION {[1..n -> ProbeSegments] : n \in 1..MaxSegments},
     signature : {None, ZeroTable, TableT1, TableT2}]

InitItems ==
    /\ \E in \in ItemsInputs : probe = [fn |-> "items_input", in |-> in]
    /\ input = IdleInput
    /\ pc = "idle"
    /\ error = ""
    /\ rng = [seed |-> 1, n |-> 0]
    /\ executors = <<>>
    /\ next_exec = 0
    /\ results = <<>>
    /\ used_seed = [e \in Elements |-> NotRun]
    /\ warnings = [e \in Elements |-> 0]
    /\ partitions = <<>>
    /\ i = 0
    /\ tasks = <<>>
    /\ collected = 0
    /\ list_results = <<>>
    /\ output = [written |-> FALSE, rows |-> <<>>]

CallItems ==
    /\ probe.fn = "items_input"
    /\ probe' = [fn |-> "items", in |-> probe.in,
                 out |-> [items |-> ItemsToSimulate(probe.in.segments),
                          prob |-> Weights(probe.in.segments, probe.in.signature)]]
    /\ UNCHANGED runvars

NextItems == CallItems

SpecItems == InitItems /\ [][NextItems]_vars

(***************************************************************************)
(* main (main.py:17-30) called up to MaxCalls times in a row with the same *)
(* arguments.  probe holds what the calls did: how many calls were made,   *)
(* whether the output file existed before the first one, how often the     *)
(* configuration was loaded and how often analysis.run() was started.  The *)
(* run itself is the run of Spec, on inputs of at most MaxMainMuts rows.   *)
(***************************************************************************)
MaxCalls == 2
MaxMainMuts == 1

MainInputs == {in \in Inputs : Len(in.mutations) <= MaxMainMuts}

\* path.exists(output_file) (main.py:20)
OutputExists == probe.existed \/ output.written

InitMain ==
    /\ \E b \in BOOLEAN :
          probe = [fn |-> "main", calls |-> 0, existed |-> b, loads |-> 0, analyses |-> 0]
    /\ input \in MainInputs
    /\ pc = "main"
    /\ error = ""
    /\ rng = [seed |-> input.seed, n |-> 0]
    /\ executors = <<>>
    /\ next_exec = 0
    /\ results = <<>>
    /\ used_seed = [e \in Elements |-> NotRun]
    /\ warnings = [e \in Elements |-> 0]
    /\ partitions = <<>>
    /\ i = 0
    /\ tasks = <<>>
    /\ collected = 0
    /\ list_results = <<>>
    /\ output = [written |-> FALSE, rows |-> <<>>]

\* a call of main, the first one or one made after the call before it has
\* returned or raised: it returns at once if the output file exists
\* (main.py:20-22); otherwise it loads the configuration, constructs the
\* analysis, which seeds np.random (smregions.py:70), and starts its run
\* (main.py:24-30)
MainCall ==
    /\ pc \in {"main", "skipped", "done", "error"}
    /\ probe.calls < MaxCalls
    /\ IF OutputExists
       THEN /\ probe' = [probe EXCEPT !.calls = probe.calls + 1]
            /\ pc' = "skipped"
            /\ UNCHANGED <<error, rng, executors, next_exec, results, used_seed,
                           warnings, partitions, i, tasks, collected, list_results>>
       ELSE /\ probe' = [probe EXCEPT !.calls = probe.calls + 1,
                                      !.loads = probe.loads + 1,
                                      !.analyses = probe.analyses + 1]
            /\ pc' = "start"
            /\ error' = ""
            /\ rng' = [seed |-> input.seed, n |-> 0]
            /\ executors' = <<>>
            /\ next_exec' = 0
            /\ results' = <<>>
            /\ used_seed' = [e \in Elements |-> NotRun]
            /\ warnings' = [e \in Elements |-> 0]
            /\ partitions' = <<>>
            /\ i' = 0
            /\ tasks' = <<>>
            /\ collected' = 0
            /\ list_results' = <<>>
    /\ UNCHANGED <<input, output>>

NextMain == MainCall \/ Next

SpecMain == InitMain /\ [][NextMain]_vars

(***************************************************************************)
(* The claims.                                                             *)
(***************************************************************************)
Flag(b) == IF b THEN 1 ELSE 0

\* C1: for every total size S >= 0 and chunk size c >= 1, partitions_list(S, c)
\* returns a list of integers, each >= 1 and <= c, whose sum is S: S // c
\* entries equal to c, followed by one entry S mod c iff S mod c # 0.
C1_PartitionsSumToTotal ==
    probe.fn = "partitions_list" =>
        LET S == probe.in.total_size
            c == probe.in.chunk_size
            out == probe.out
        IN  /\ out.err = ""
            /\ \A k \in 1..Len(out.val) : 1 <= out.val[k] /\ out.val[k] <= c
            /\ SumSeq(out.val) = S
            /\ Len(out.val) = (S \div c) + Flag(S % c # 0)
            /\ \A k \in 1..(S \div c) : out.val[k] = c
            /\ S % c # 0 => out.val[Len(out.val)] = S % c

\* C1's case: a list of several full chunks and a remainder
C1_Witness ==
    /\ probe.fn = "partitions_list"
    /\ probe.in.total_size \div probe.in.chunk_size >= 2
    /\ probe.in.total_size % probe.in.chunk_size # 0
    /\ Len(probe.out.val) >= 3

\* C5: for every S >= 1, M >= 1 and chunk ceiling C >= 1, every partition P
\* the planner produces satisfies P * M <= C.
C5_PartitionWithinCeiling ==
    probe.fn = "plan" =>
        \A k \in 1..Len(probe.out.val) :
            probe.out.val[k] * probe.in.M <= probe.in.sampling_chunk * Mega

\* C6 as stated: with chunk_count = (S * M) // chunk_ceiling, the plan is [S]
\* if chunk_count = 0 and otherwise chunk_count partitions of size
\* S // chunk_count, followed by one remainder partition iff
\* S mod chunk_count # 0 (stated of the inputs for which a plan is produced).
C6_PlanByChunkCount ==
    (probe.fn = "plan" /\ probe.out.err = "") =>
        LET S == probe.in.S
            cc == (S * probe.in.M) \div (probe.in.sampling_chunk * Mega)
            out == probe.out
        IN  IF cc = 0
            THEN out.err = "" /\ out.val = <<S>>
            ELSE /\ out.err = ""
                 /\ Len(out.val) = cc + Flag(S % cc # 0)
                 /\ \A k \in 1..cc : out.val[k] = S \div cc

\* C6, amended: with chunk_count = (S * M) // chunk_ceiling, the plan is [S] if
\* chunk_count = 0; otherwise, with chunk_size = S // chunk_count, the plan is
\* S // chunk_size partitions of size chunk_size followed by one remainder
\* partition, of size S mod chunk_size, iff S mod chunk_size # 0; when
\* chunk_size = 0 (chunk_count > S) no plan is produced, the planner raises
\* ZeroDivisionError.
C6_PlanByChunkSize ==
    probe.fn = "plan" =>
        LET S == probe.in.S
            cc == (S * probe.in.M) \div (probe.in.sampling_chunk * Mega)
            out == probe.out
        IN  IF cc = 0
            THEN out.err = "" /\ out.val = <<S>>
            ELSE LET cs == S \div cc
                 IN  IF cs = 0
                     THEN out.err = "ZeroDivisionError"
                     ELSE /\ out.err = ""
                          /\ Len(out.val) = (S \div cs) + Flag(S % cs # 0)
                          /\ \A k \in 1..(S \div cs) : out.val[k] = cs
                          /\ S % cs # 0 => out.val[Len(out.val)] = S % cs

\* C6's case: a plan of more full chunks than chunk_count
C6_Witness ==
    /\ probe.fn = "plan"
    /\ probe.out.err = ""
    /\ LET cc == (probe.in.S * probe.in.M) \div (probe.in.sampling_chunk * Mega)
       IN  /\ cc >= 2
           /\ Len(probe.out.val) > cc + 1

(***************************************************************************)
(* Claims about the run.                                                   *)
(***************************************************************************)
\* the first pass of the k-th executor made its draws and counted them
FirstPassRan(k) == DOMAIN results[executors[k].name].in_reg_counts # {}

\* the regions of the k-th executor that hold every candidate position, so
\* that every drawn entry is counted in them, and whose label no other region has
CoveringRegions(k) ==
    LET ex == executors[k]
        regs == ex.regions_of_interest
    IN  {reg \in SeqToSet(regs) :
            /\ \A q \in Positions(ItemsToSimulate(ex.segments)) : reg.begin <= q /\ q <= reg.end
            /\ \A other \in SeqToSet(regs) : other.data = reg.data => other = reg}

\* every deferred partition of the k-th executor has been run by a worker in
\* a round of the continuation loop
ContinuationsRun(k) ==
    /\ i >= 1
    /\ Len(tasks) = Len(partitions)
    /\ \A j \in 1..Len(partitions) :
          partitions[j].name = executors[k].name => Executed(j)

RECURSIVE RankIn(_, _)
RankIn(seq, e) == IF seq = <<>> \/ Head(seq) = e THEN 0 ELSE 1 + RankIn(Tail(seq), e)

\* C4: the seed every element's first pass uses and the seed of every deferred
\* partition are the values drawn from the stream of the top-level seed.
C4_SeedsFromTopLevelSeed ==
    /\ \A e \in Elements :
          used_seed[e] # NotRun =>
              used_seed[e] = Seeded(Stream(input.seed, RankIn(Analysed, e)))
    /\ \A j \in 1..Len(partitions) :
          partitions[j].seed = Stream(input.seed, Len(Analysed) + j - 1)

\* the row is the row of a region of a received result
RowOfAccumulator(row) ==
    \E k \in 1..next_exec :
        LET r == results[executors[k].name]
        IN  \E l \in DOMAIN r.in_reg_counts :
              /\ row.REGION = l[1] /\ row.HUGO_SYMBOL = l[2]
              /\ row.TOTAL_MUTS_GENE = r.nmuts
              /\ row.OBSERVED_REGION = r.in_reg_counts[l][1]
              /\ row.MEAN_SIMULATED = [num |-> r.in_reg_counts[l][2], den |-> input.sampling]

\* C7: every row written has observed >= simulated / S.
C7_NoDepletedRow ==
    output.written =>
        \A k \in 1..Len(output.rows) :
            LET row == output.rows[k].row
            IN  /\ RowOfAccumulator(row)
                /\ row.OBSERVED_REGION * input.sampling >= row.MEAN_SIMULATED.num

\* C7's case: a table was written with a row, and a collected row with
\* observed < mean_simulated was left out
C7_Witness ==
    /\ output.written
    /\ Len(output.rows) >= 1
    /\ \E k \in 1..Len(list_results) :
          list_results[k].OBSERVED_REGION * input.sampling < list_results[k].MEAN_SIMULATED.num

\* C8: every row collected by the aggregator, and every row of the final
\* table, has observed > 0.
C8_NoRowWithoutObserved ==
    /\ \A k \in 1..Len(list_results) :
          RowOfAccumulator(list_results[k]) /\ list_results[k].OBSERVED_REGION > 0
    /\ \A k \in 1..Len(output.rows) : output.rows[k].row.OBSERVED_REGION > 0

\* C8's case: rows were collected and written while a region of a received
\* accumulator has observed = 0
C8_Witness ==
    /\ pc = "done"
    /\ Len(output.rows) >= 1
    /\ \E k \in 1..next_exec :
          \E l \in DOMAIN results[executors[k].name].in_reg_counts :
              results[executors[k].name].in_reg_counts[l][1] = 0

\* C9: in the element-level run exactly the first partition of the plan is
\* run inline (the first pass counts plan[0] rows per sample) and the pending
\* list of the result is the plan without its first entry, in the same order.
C9_FirstPartitionInline ==
    \A k \in 1..next_exec :
        LET r == results[executors[k].name]
            S == input.sampling
            cc == (S * r.nmuts) \div (input.sampling_chunk * Mega)
            cs == IF cc = 0 THEN S ELSE S \div cc
        IN  IF FirstPassRan(k)
            THEN /\ Len(r.partitions) = (S \div cs) + Flag(S % cs # 0) - 1
                 /\ \A j \in 1..Len(r.partitions) :
                       r.partitions[j] = IF j + 1 <= S \div cs THEN cs ELSE S % cs
                 /\ \A reg \in CoveringRegions(k) :
                       r.in_reg_counts[reg.data][2] = cs * r.nmuts
            ELSE r.partitions = <<>>

\* C9's case: a first pass that left several partitions pending
C9_Witness ==
    \E k \in 1..next_exec :
        /\ FirstPassRan(k)
        /\ Len(results[executors[k].name].partitions) >= 2
        /\ CoveringRegions(k) # {}

\* the candidate weights of every sample of element e sum to zero
ZeroSumElement(e) ==
    /\ input.signature.type = "dict"
    /\ Len(MutsOf(e)) > 0
    /\ Len(input.regions[e]) > 0
    /\ \A k \in 1..Len(MutsOf(e)) :
          SumSeq(Weights(input.segments[e], input.signature.of[MutsOf(e)[k].SAMPLE])) = 0

\* C10: when the candidate weights of an element sum to zero, its run makes
\* no draw and logs a warning, the element ends with no deferred partition
\* and no row in the final table, and the run goes on without error.
C10_ZeroSumElementSkipped ==
    \A e \in Elements :
        (ZeroSumElement(e) /\ used_seed[e] # NotRun) =>
            /\ pc # "error"
            /\ warnings[e] >= 1
            /\ e \in DOMAIN results
            /\ results[e].partitions = <<>>
            /\ DOMAIN results[e].in_reg_counts = {}
            /\ \A k \in 1..Len(output.rows) : output.rows[k].row.HUGO_SYMBOL # e

\* element e has no observed mutation or no region of interest
NoWork(e) == Len(MutsOf(e)) = 0 \/ Len(input.regions[e]) = 0

\* C11: an element with no observed mutations or with no regions of interest
\* is not an error: its run returns an accumulator with no region entries and
\* no pending partitions, no continuation is scheduled for it and it has no
\* output row.
C11_EmptyElementNotAnError ==
    \A e \in Elements :
        NoWork(e) =>
            /\ used_seed[e] # NotRun =>
                  /\ e \in DOMAIN results
                  /\ results[e].in_reg_counts = <<>>
                  /\ results[e].partitions = <<>>
            /\ \A j \in 1..Len(partitions) : partitions[j].name # e
            /\ \A k \in 1..Len(list_results) : list_results[k].HUGO_SYMBOL # e
            /\ \A k \in 1..Len(output.rows) : output.rows[k].row.HUGO_SYMBOL # e

\* C11's case: the run is done, an element with mutations and no region was
\* run, and the table holds rows of another element
C11_Witness ==
    /\ pc = "done"
    /\ Len(output.rows) >= 1
    /\ \E e \in Elements : NoWork(e) /\ e \in DOMAIN results

C14_OnlyElementsWithMutsMin ==
    \A e \in Elements :
        /\ pc # "start" =>
              Cardinality({k \in 1..Len(executors) : executors[k].name = e})
                  = Flag(Len(MutsOf(e)) >= input.muts_min)
        /\ Len(MutsOf(e)) < input.muts_min =>
              /\ used_seed[e] = NotRun
              /\ e \notin DOMAIN results
              /\ \A j \in 1..Len(partitions) : partitions[j].name # e
              /\ \A k \in 1..Len(list_results) : list_results[k].HUGO_SYMBOL # e
              /\ \A k \in 1..Len(output.rows) : output.rows[k].row.HUGO_SYMBOL # e

\* C14's case: the run is done and an element with mutations and regions, but
\* fewer mutations than muts_min, was left out
C14_Witness ==
    /\ pc = "done"
    /\ \E e \in Elements :
          /\ 0 < Len(MutsOf(e)) /\ Len(MutsOf(e)) < input.muts_min
          /\ Len(input.regions[e]) > 0

\* C15: element units are submitted to the pool in non-increasing order of
\* observed mutation count, ties in ascending order of element id, and their
\* results are taken in that order.
C15_SubmittedByMutationCount ==
    /\ \A a \in 1..Len(executors), b \in 1..Len(executors) :
          a < b =>
              /\ Len(MutsOf(executors[a].name)) >= Len(MutsOf(executors[b].name))
              /\ Len(MutsOf(executors[a].name)) = Len(MutsOf(executors[b].name)) =>
                    RankIn(ElementOrder, executors[a].name)
                        < RankIn(ElementOrder, executors[b].name)
    /\ DOMAIN results = {executors[k].name : k \in 1..next_exec}

\* C15's case: both units were run, and the one submitted first has the
\* greater element id and more mutations
C15_Witness ==
    /\ next_exec = 2
    /\ RankIn(ElementOrder, executors[1].name) > RankIn(ElementOrder, executors[2].name)
    /\ Len(executors[1].muts) > Len(executors[2].muts)

\* the finite p-values of the written rows, in the order of the table
FinitePValues ==
    LET finite == SelectSeq(output.rows, LAMBDA x : x.row.P_VALUE.finite)
    IN  [k \in 1..Len(finite) |-> finite[k].row.P_VALUE.of]

NonZeroWeights(ex) ==
    /\ ex.signature.type = "dict"
    /\ \A k \in 1..Len(ex.muts) : WeightSum(ex, ex.muts[k].SAMPLE) > 0

PartitionDraws(r, P) ==
    UNION {DrawOutcomes(P * r.nmuts, r.state.simulation_items,
                        r.state.simulation_probs.of[sm].w) :
              sm \in DOMAIN r.state.simulation_probs.of}

\* the same for every pending partition of the result
ContinuationDraws(r) ==
    UNION {PartitionDraws(r, r.partitions[j]) : j \in 1..Len(r.partitions)}

\* the results with continuation state, as the orchestrating process holds them
StoredResults == {results[executors[k].name] : k \in {j \in 1..next_exec :
                                                       results[executors[j].name].stored}}

\* a step of a continuation round keeps the observed component of every entry
\* of every element and does not lower its simulated component; so do the
\* counts a worker returns, and the counting loop of compute_sampling
\* (walker.py:51-62) applied to a stored result
C18Step ==
    /\ pc = "round" =>
          /\ DOMAIN results' = DOMAIN results
          /\ \A e \in DOMAIN results :
                /\ DOMAIN results'[e].in_reg_counts = DOMAIN results[e].in_reg_counts
                /\ \A l \in DOMAIN results[e].in_reg_counts :
                      /\ results'[e].in_reg_counts[l][1] = results[e].in_reg_counts[l][1]
                      /\ results'[e].in_reg_counts[l][2] >= results[e].in_reg_counts[l][2]
          /\ \A k \in 1..Len(tasks) :
                (Running(k) /\ tasks'[k].state = "returned") =>
                    \A l \in DOMAIN results[partitions[k].name].in_reg_counts :
                        /\ tasks'[k].counts[l][1]
                              = results[partitions[k].name].in_reg_counts[l][1]
                        /\ tasks'[k].counts[l][2]
                              >= results[partitions[k].name].in_reg_counts[l][2]
    /\ \A r \in StoredResults : \A hits \in ContinuationDraws(r) :
          LET after == AddSimulated(r.in_reg_counts, r.state.region_of_interest, hits)
          IN  /\ DOMAIN after = DOMAIN r.in_reg_counts
              /\ \A l \in DOMAIN after :
                    /\ after[l][1] = r.in_reg_counts[l][1]
                    /\ after[l][2] >= r.in_reg_counts[l][2]

\* C18: a continuation never changes an observed count: for every region of
\* the element the observed component of the entry after compute_sampling is
\* the one before it, the simulated component does not decrease, and no entry
\* of another element changes.
C18_ContinuationKeepsObserved == [][C18Step]_vars

\* C18's case: a continuation of an element with an observed mutation in a
\* region has been run
C18_Witness ==
    \E k \in 1..Len(tasks) :
        /\ Executed(k)
        /\ \E l \in DOMAIN results[partitions[k].name].in_reg_counts :
              /\ results[partitions[k].name].in_reg_counts[l][1] > 0
              /\ results[partitions[k].name].in_reg_counts[l][2] > 0

\* C19: the accumulated counts do not depend on the order in which the
\* deferred partitions are processed: for fixed per-partition contributions,
\* when a later partition of an element is processed before an earlier one,
\* adding the two contributions to the accumulator of the stored result in
\* either order leaves the same (observed, simulated) pair for every region.
C19_OrderIndependent ==
    \A j \in 1..Len(tasks), k \in 1..Len(tasks) :
        (/\ j < k /\ partitions[j].name = partitions[k].name
         /\ Running(j) /\ Executed(k)
         /\ results[partitions[k].name].stored) =>
            LET r == results[partitions[k].name]
                regs == r.state.region_of_interest
            IN  \A h1 \in PartitionDraws(r, partitions[j].samples),
                   h2 \in PartitionDraws(r, partitions[k].samples) :
                    AddSimulated(AddSimulated(r.in_reg_counts, regs, h1), regs, h2)
                        = AddSimulated(AddSimulated(r.in_reg_counts, regs, h2), regs, h1)

\* C19's case: of two partitions of one element the later one was processed
\* first, in a round with a partition of another element, and the two
\* contributions can differ
C19_Witness ==
    /\ \E j \in 1..Len(tasks), k \in 1..Len(tasks) :
          /\ j < k /\ partitions[j].name = partitions[k].name
          /\ Running(j) /\ Executed(k)
          /\ results[partitions[k].name].stored
          /\ LET r == results[partitions[k].name]
             IN  \E h1 \in PartitionDraws(r, partitions[j].samples),
                    h2 \in PartitionDraws(r, partitions[k].samples) :
                     AddSimulated(r.in_reg_counts, r.state.region_of_interest, h1)
                         # AddSimulated(r.in_reg_counts, r.state.region_of_interest, h2)
    /\ \E j \in 1..Len(tasks), k \in 1..Len(tasks) : partitions[j].name # partitions[k].name

\* the draws the first-pass procedure makes for a partition of size P: for
\* each sample, P rows of as many entries as the sample has mutations
FirstPassLikeDraws(ex, P) ==
    LET keys == SeqToSet(SampleKeys(ex.muts))
    IN  {d \in [keys -> UNION {SampleDraws(ex, P, sm) : sm \in keys}] :
            \A sm \in keys : d[sm] \in SampleDraws(ex, P, sm)}

MixedZeroSum(e) ==
    /\ input.binding = "per_sample"
    /\ input.signature.type = "dict"
    /\ Len(MutsOf(e)) > 0
    /\ Len(input.regions[e]) > 0
    /\ \E j \in 1..Len(MutsOf(e)), k \in 1..Len(MutsOf(e)) :
          /\ SumSeq(Weights(input.segments[e], input.signature.of[MutsOf(e)[j].SAMPLE])) = 0
          /\ SumSeq(Weights(input.segments[e], input.signature.of[MutsOf(e)[k].SAMPLE])) # 0

C24_PlannerNeverFails ==
    probe.fn = "plan" =>
        /\ ChunkSize(probe.in.S,
                     ChunkCount(probe.in.S, probe.in.M, probe.in.sampling_chunk)) >= 1
        /\ probe.out.err = ""
        /\ Len(probe.out.val) >= 1

\* C23: the candidate list holds, for every position of every segment whose
\* centred trinucleotide has no 'N', exactly the three (position, alt) pairs
\* with alt a base other than the reference base, once per segment holding
\* the position, and nothing else; the weight list of a sample is as long as
\* the candidate list, its k-th weight is signature[trinucleotide > alt] of
\* the k-th candidate (0 if absent), or 1 with no signature, and is >= 0.
C23_CandidatesOfEveryPosition ==
    probe.fn = "items" =>
        LET segs == probe.in.segments
            sig == probe.in.signature
            items == probe.out.items
            prob == probe.out.prob
            Count(pos, alt) == Cardinality({k \in 1..Len(items) : items[k] = <<pos, alt>>})
            Covering(pos) == Cardinality({j \in 1..Len(segs) :
                                             segs[j].START <= pos /\ pos <= segs[j].END})
        IN  /\ \A pos \in 2..MaxSegmentEnd : \A alt \in SeqToSet(Bases) :
                  Count(pos, alt) = IF ~HasN(get_triplet(pos)) /\ alt # get_triplet(pos)[2]
                                    THEN Covering(pos) ELSE 0
            /\ \A k \in 1..Len(items) :
                  items[k][1] \in 2..MaxSegmentEnd /\ items[k][2] \in SeqToSet(Bases)
            /\ Len(prob) = Len(items)
            /\ \A k \in 1..Len(prob) :
                  /\ prob[k] >= 0
                  /\ prob[k] = IF sig.type = "None" THEN 1
                               ELSE LET key == <<get_triplet(items[k][1]), items[k][2]>>
                                    IN  IF key \in DOMAIN sig.table
                                        THEN sig.table[key] ELSE 0

\* C25: if the output file exists when main is called, no configuration is
\* loaded, no analysis is run and the file is left as it is; the analysis
\* runs and the output is written only when the file does not exist; and
\* main called twice in a row runs the analysis at most once.
C25_AnalysisAtMostOnce ==
    probe.fn = "main" =>
        /\ probe.existed => (probe.loads = 0 /\ probe.analyses = 0 /\ ~output.written)
        /\ pc = "skipped" => OutputExists
        /\ probe.analyses <= 1

====
